---- MODULE Spec2Model ----
(***************************************************************************)
(* Model of validate_json/main.py: the schema loader, the per-document     *)
(* checker, the pruning of the result tree and the report.                 *)
(*                                                                         *)
(* Two specifications share the module:                                    *)
(*   Spec       one run of main() over a schema directory and an event     *)
(*              directory chosen in Init;                                  *)
(*   SpecPrune  remove_empty_from_dict applied (once, then again) to a     *)
(*              JSON value built up from leaves.                           *)
(*                                                                         *)
(* The texts of the messages are English renderings of the Russian         *)
(* literals of the source; every message keeps its own distinct text.      *)
(***************************************************************************)
EXTENDS Integers, Sequences, FiniteSets, TLC

VARIABLES
    schema_dir,   \* PATH_TO_SHEMA: file stem -> file content
    event_dir,    \* PATH_TO_EVENT: sequence (enumeration order) of file contents
    pc,           \* position of main()
    todo,         \* schema_loader: stems iterdir() has not yielded yet
    schemas,      \* schema_loader: the registry built so far
    errors,       \* run_checker: document stem -> list of messages
    idx,          \* run_checker: index of the next document of files_paths
    ran,          \* per document, the checks run_checker has called for it
    result,       \* run_checker's return value
    res,          \* remove_empty_from_dict(result)
    report,       \* make_report(res)
    report_file,  \* the lines written to report.txt
    fault,        \* the exception that ended main(), "none" if none
    x,            \* SpecPrune: the value being built
    out,          \* SpecPrune: remove_empty_from_dict(x)
    out2,         \* SpecPrune: remove_empty_from_dict(out)
    phase         \* SpecPrune: "build", "pruned", "twice"

pipeVars == <<schema_dir, event_dir, pc, todo, schemas, errors, idx, ran,
              result, res, report, report_file, fault>>
pruneVars == <<x, out, out2, phase>>
vars == <<schema_dir, event_dir, pc, todo, schemas, errors, idx, ran,
          result, res, report, report_file, fault, x, out, out2, phase>>

(***************************************************************************)
(* Bounds of the model.                                                    *)
(***************************************************************************)
\* Nesting depth of the values remove_empty_from_dict is applied to.
MaxDepth == 2
\* Number of elements of a list of those values.
MaxWidth == 2
\* Number of files of the event directory.
MaxDocs == 2

(***************************************************************************)
(* JSON values as Python holds them after json.load: a record tagged with  *)
(* the Python type of the value.                                           *)
(***************************************************************************)
None == [k |-> "NoneType"]
JStr(s) == [k |-> "str", s |-> s]
JBool(b) == [k |-> "bool", b |-> b]
JInt(n) == [k |-> "int", n |-> n]
JFloat(n) == [k |-> "float", n |-> n]
JDict(m) == [k |-> "dict", m |-> m]
JList(a) == [k |-> "list", a |-> a]
EmptyMap == [key \in {} |-> None]
EmptyDict == JDict(EmptyMap)
EmptyList == JList(<<>>)

\* Python's truth value of a JSON value (the operand of `v or ...`).
Truthy(v) ==
    CASE v.k = "NoneType" -> FALSE
      [] v.k = "str" -> v.s # ""
      [] v.k = "bool" -> v.b
      [] v.k \in {"int", "float"} -> v.n # 0
      [] v.k = "dict" -> DOMAIN v.m # {}
      [] v.k = "list" -> Len(v.a) > 0

\* str(v). A non-empty container is rendered without its content: only
\* whether the text is blank is ever read.
PyStr(v) ==
    CASE v.k = "NoneType" -> "None"
      [] v.k = "str" -> v.s
      [] v.k = "bool" -> IF v.b THEN "True" ELSE "False"
      [] v.k = "int" -> ToString(v.n)
      [] v.k = "float" -> ToString(v.n) \o ".0"
      [] v.k = "dict" -> IF DOMAIN v.m = {} THEN "{}" ELSE "{...}"
      [] v.k = "list" -> IF Len(v.a) = 0 THEN "[]" ELSE "[...]"

\* str.strip() on the texts of the model: these are the only ones with
\* leading or trailing white space.
PyStrip(s) ==
    CASE s = " " -> ""
      [] s = "  " -> ""
      [] s = " a " -> "a"
      [] OTHER -> s

(***************************************************************************)
(* remove_empty_from_dict                                                  *)
(***************************************************************************)
\* A faulty variant of DictKeeps: the numeric branch is missing, so 0 falls
\* to the truth test.
DictKeepsNoNumericBranch(v, pruned) ==
    IF v = None \/ v = JStr("") THEN FALSE
    ELSE Truthy(v) \/ Truthy(pruned)

\* Lines 35-40: whether the dict branch keeps the value v of a key, pruned
\* being remove_empty_from_dict(v).
DictKeeps(v, pruned) ==
    IF v = None \/ v = JStr("") THEN FALSE
    ELSE IF v.k = "int" \/ v.k = "float" THEN TRUE
    ELSE Truthy(v) \/ Truthy(pruned)

\* Lines 45-49: whether the list branch keeps the element v.
ListKeeps(v, pruned) ==
    /\ (PyStrip(PyStr(v)) # "" \/ PyStrip(PyStr(pruned)) # "")
    /\ (v # None \/ pruned # None)

RECURSIVE remove_empty_from_dict(_)
remove_empty_from_dict(d) ==
    IF d.k = "dict" THEN
        LET kept == {key \in DOMAIN d.m :
                        DictKeeps(d.m[key], remove_empty_from_dict(d.m[key]))}
        IN  JDict([key \in kept |-> remove_empty_from_dict(d.m[key])])
    ELSE IF d.k = "list" THEN
        LET RECURSIVE filt(_)
            filt(i) ==
                IF i > Len(d.a) THEN <<>>
                ELSE LET p == remove_empty_from_dict(d.a[i])
                     IN  IF ListKeeps(d.a[i], p) THEN <<p>> \o filt(i + 1)
                         ELSE filt(i + 1)
        IN  JList(filt(1))
    ELSE d

(***************************************************************************)
(* SpecPrune: the values remove_empty_from_dict is applied to.             *)
(***************************************************************************)
Keys == {"a", "b"}
Leaves == {None, JStr(""), JStr(" "), JStr("a"), JBool(FALSE), JBool(TRUE),
           JInt(0), JInt(1), JFloat(0), EmptyDict, EmptyList}
Siblings == {None, JBool(FALSE), JInt(0)}

RECURSIVE Depth(_)
Depth(v) ==
    LET RECURSIVE maxOf(_)
        maxOf(S) == IF S = {} THEN 0
                    ELSE LET e == CHOOSE e \in S : TRUE
                             r == maxOf(S \ {e})
                         IN  IF e > r THEN e ELSE r
    IN  IF v.k = "dict" /\ DOMAIN v.m # {}
        THEN 1 + maxOf({Depth(v.m[key]) : key \in DOMAIN v.m})
        ELSE IF v.k = "list" /\ Len(v.a) > 0
        THEN 1 + maxOf({Depth(v.a[i]) : i \in 1..Len(v.a)})
        ELSE 0

NotYet == [k |-> "unset"]

PipeInitIdle ==
    /\ schema_dir = EmptyMap
    /\ event_dir = <<>>
    /\ pc = "idle"
    /\ todo = {}
    /\ schemas = EmptyMap
    /\ errors = EmptyMap
    /\ idx = 1
    /\ ran = EmptyMap
    /\ result = NotYet
    /\ res = NotYet
    /\ report = <<>>
    /\ report_file = NotYet
    /\ fault = "none"

InitPrune ==
    /\ PipeInitIdle
    /\ x \in Leaves
    /\ out = NotYet
    /\ out2 = NotYet
    /\ phase = "build"

\* x becomes the single value of a dict.
WrapDict ==
    /\ phase = "build"
    /\ Depth(x) < MaxDepth
    /\ \E key \in Keys : x' = JDict(key :> x)
    /\ UNCHANGED <<out, out2, phase>>
    /\ UNCHANGED pipeVars

\* x becomes the single element of a list.
WrapList ==
    /\ phase = "build"
    /\ Depth(x) < MaxDepth
    /\ x' = JList(<<x>>)
    /\ UNCHANGED <<out, out2, phase>>
    /\ UNCHANGED pipeVars

\* The dict x gets one more key.
SetKey ==
    /\ phase = "build"
    /\ x.k = "dict"
    /\ DOMAIN x.m # {}
    /\ \E key \in Keys \ DOMAIN x.m, v \in Siblings :
           x' = JDict([q \in DOMAIN x.m \cup {key} |->
                          IF q = key THEN v ELSE x.m[q]])
    /\ UNCHANGED <<out, out2, phase>>
    /\ UNCHANGED pipeVars

\* The list x gets one more element.
AppendElem ==
    /\ phase = "build"
    /\ x.k = "list"
    /\ Len(x.a) > 0
    /\ Len(x.a) < MaxWidth
    /\ \E v \in Siblings : x' = JList(Append(x.a, v))
    /\ UNCHANGED <<out, out2, phase>>
    /\ UNCHANGED pipeVars

Prune ==
    /\ phase = "build"
    /\ out' = remove_empty_from_dict(x)
    /\ phase' = "pruned"
    /\ UNCHANGED <<x, out2>>
    /\ UNCHANGED pipeVars

PruneAgain ==
    /\ phase = "pruned"
    /\ out2' = remove_empty_from_dict(out)
    /\ phase' = "twice"
    /\ UNCHANGED <<x, out>>
    /\ UNCHANGED pipeVars

NextPrune ==
    \/ WrapDict
    \/ WrapList
    \/ SetKey
    \/ AppendElem
    \/ Prune
    \/ PruneAgain

SpecPrune == InitPrune /\ [][NextPrune]_vars

(***************************************************************************)
(* The files of the two directories.  A file holds either bytes that       *)
(* json.load rejects or the text of a JSON value.                          *)
(***************************************************************************)
NotJsonFile == [kind |-> "bytes", text |-> "not json"]
JsonFile(v) == [kind |-> "json", value |-> v]

\* user.json: type, required and properties, in the order of the file.
UserSchema ==
    JDict([type |-> JStr("object"),
           required |-> JList(<<JStr("name"), JStr("age")>>),
           properties |-> JDict([name |-> JDict([type |-> JStr("string")])])])
\* A JSON object that is no Draft 7 schema: its type is no type name.
BadTypeSchema == JDict([type |-> JStr("foo")])

SchemaContents == [user |-> {JsonFile(UserSchema), NotJsonFile,
                             JsonFile(BadTypeSchema)},
                   bad |-> {NotJsonFile}]
SchemaStems == DOMAIN SchemaContents
SchemaDirs ==
    UNION {{d \in [S -> UNION {SchemaContents[n] : n \in S}] :
               \A n \in S : d[n] \in SchemaContents[n]} :
             S \in SUBSET SchemaStems}

DataValues == {EmptyDict,
               JDict([name |-> JStr("Alice"), age |-> JInt(1)]),
               JDict([name |-> JInt(5)])}
\* An event document: the keys left out are absent from the object.
EventDoc(event, data) ==
    JDict([key \in (IF event = None THEN {} ELSE {"event"}) \cup
                   (IF data = None THEN {} ELSE {"data"}) |->
              IF key = "event" THEN event ELSE data])
DocContents ==
    {NotJsonFile, JsonFile(EmptyList)}
    \cup {JsonFile(EventDoc(e, d)) : e \in {None, JInt(5)},
                                    d \in {None, EmptyDict}}
    \cup {JsonFile(EventDoc(JStr(e), d)) : e \in SchemaStems,
                                          d \in DataValues \cup {None}}
EventDirs == UNION {[1..n -> DocContents] : n \in 0..MaxDocs}

\* Path.stem of the i-th file of the event directory.
DocStem(i) == "doc" \o ToString(i)

(***************************************************************************)
(* Messages.                                                               *)
(***************************************************************************)
MSG_NOT_JSON == "This file is not in JSON format"
MSG_NOT_DICT == "The file must hold a dict of data in JSON format"
MSG_NO_EVENT == "No schema given for the check."
MSG_EVENT_NOT_STR == "The name of the schema must be a string"
MSG_NO_SCHEMA == "The given schema does not exist."
MSG_SCHEMA_ERRORS == "Errors were found in the given schema"
MSG_NO_DATA == "No data given for the check."
HEADER == "Check performed <datetime.now()>\n"
SCHEMA_HEADING == "Schema errors found:\n"
JSON_HEADING == "JSON file errors found:\n"

(***************************************************************************)
(* The registry's values and the validation engine (jsonschema's           *)
(* Draft7Validator), for the keywords type, required and properties.       *)
(***************************************************************************)
Draft7Validator(schema) == [class |-> "Draft7Validator", schema |-> schema]
CorruptedSchema(error) == [class |-> "CorruptedSchema", error |-> error]
\* The class object CorruptedSchema itself, which no registry value is.
CorruptedSchemaClass == [class |-> "type", name |-> "CorruptedSchema"]

JSONDecodeError == "Expecting value: line 1 column 1 (char 0)"
SchemaError == "'foo' is not valid under any of the given schemas"

SimpleTypes == {"array", "boolean", "integer", "null", "number", "object",
                "string"}
\* Draft7Validator.check_schema raises SchemaError.
CheckSchemaRaises(schema) ==
    /\ schema.k = "dict"
    /\ "type" \in DOMAIN schema.m
    /\ schema.m["type"] \notin {JStr(t) : t \in SimpleTypes}

\* repr(v), as the engine's messages quote an instance.
PyRepr(v) == IF v.k = "str" THEN "'" \o v.s \o "'" ELSE PyStr(v)

IsType(v, t) ==
    CASE t = "object" -> v.k = "dict"
      [] t = "array" -> v.k = "list"
      [] t = "string" -> v.k = "str"
      [] t = "boolean" -> v.k = "bool"
      [] t = "integer" -> v.k = "int"
      [] t = "number" -> v.k \in {"int", "float"}
      [] t = "null" -> v.k = "NoneType"

ValidationError(message, validator) ==
    [message |-> message, validator |-> validator]

\* validator.iter_errors(instance): the violations in the order the engine
\* yields them, which is the order of the schema's keywords and, within
\* required, of its names.
RECURSIVE iter_errors(_, _)
iter_errors(schema, instance) ==
    LET has(kw) == schema.k = "dict" /\ kw \in DOMAIN schema.m
        typeErrors ==
            IF has("type") /\ ~IsType(instance, schema.m["type"].s)
            THEN <<ValidationError(PyRepr(instance) \o " is not of type '"
                                     \o schema.m["type"].s \o "'", "type")>>
            ELSE <<>>
        RECURSIVE required(_)
        required(i) ==
            IF i > Len(schema.m["required"].a) THEN <<>>
            ELSE LET name == schema.m["required"].a[i].s
                 IN  (IF name \in DOMAIN instance.m THEN <<>>
                      ELSE <<ValidationError("'" \o name
                               \o "' is a required property", "required")>>)
                     \o required(i + 1)
        requiredErrors ==
            IF has("required") /\ instance.k = "dict" THEN required(1)
            ELSE <<>>
        RECURSIVE properties(_)
        properties(S) ==
            IF S = {} THEN <<>>
            ELSE LET name == CHOOSE name \in S : TRUE
                 IN  (IF name \in DOMAIN instance.m
                      THEN iter_errors(schema.m["properties"].m[name],
                                       instance.m[name])
                      ELSE <<>>)
                     \o properties(S \ {name})
        propertiesErrors ==
            IF has("properties") /\ instance.k = "dict"
            THEN properties(DOMAIN schema.m["properties"].m)
            ELSE <<>>
    IN  typeErrors \o requiredErrors \o propertiesErrors

\* str(error): the message, then the place of the failure.
ErrorStr(error) ==
    error.message \o "\n\nFailed validating '" \o error.validator
                  \o "' in schema"

\* The texts str(error) can be in the model, in ascending order of Python's
\* comparison of str ("'" sorts before "5", "a" before "n").
StrOrder ==
    <<ErrorStr(ValidationError("'age' is a required property", "required")),
      ErrorStr(ValidationError("'name' is a required property", "required")),
      ErrorStr(ValidationError("5 is not of type 'string'", "type"))>>
StrRank(s) == CHOOSE i \in 1..Len(StrOrder) : StrOrder[i] = s
\* s <= t for two str values.
StrLeq(s, t) == StrRank(s) <= StrRank(t)

\* sorted(seq, key=str): stable, ascending.
RECURSIVE SortedByStr(_)
SortedByStr(seq) ==
    IF seq = <<>> THEN <<>>
    ELSE LET e == seq[Len(seq)]
             rest == SortedByStr(SubSeq(seq, 1, Len(seq) - 1))
             n == Cardinality({i \in 1..Len(rest) :
                                  StrLeq(ErrorStr(rest[i]), ErrorStr(e))})
         IN  SubSeq(rest, 1, n) \o <<e>> \o SubSeq(rest, n + 1, Len(rest))

Messages(seq) == [i \in 1..Len(seq) |-> seq[i].message]

\* A faulty variant of check_data: the violations are not sorted.
check_data_unsorted(data, validator) ==
    Messages(iter_errors(validator.schema, data))

\* check_data, lines 187-193.
check_data(data, validator) ==
    Messages(SortedByStr(iter_errors(validator.schema, data)))

(***************************************************************************)
(* The checks of run_checker.                                              *)
(***************************************************************************)
\* dict.get(key): None when the key is absent.
Get(d, key) == IF key \in DOMAIN d.m THEN d.m[key] ELSE None

check_event_key(event) ==
    IF event = None THEN <<MSG_NO_EVENT>>
    ELSE IF event.k # "str" THEN <<MSG_EVENT_NOT_STR>>
    ELSE <<>>

\* Line 113 reads schemas.get(name); line 115 compares the registry's value
\* with the class CorruptedSchema by identity.
check_schema_key(name, registry) ==
    IF name \notin DOMAIN registry THEN <<MSG_NO_SCHEMA>>
    ELSE IF registry[name] = CorruptedSchemaClass THEN <<MSG_SCHEMA_ERRORS>>
    ELSE <<>>

check_data_key(data) ==
    IF data = None THEN <<MSG_NO_DATA>> ELSE <<>>

Outcome(errs, calls, raised) ==
    [errors |-> errs, ran |-> calls, raised |-> raised]

\* Lines 151-167 for one parsed object.  check_data reads
\* validator.iter_errors, which a CorruptedSchema does not have:
\* AttributeError, which nothing catches.
CheckKeys(event_json, registry) ==
    LET event == Get(event_json, "event")
        event_errors == check_event_key(event)
        data == Get(event_json, "data")
        data_errors == check_data_key(data)
        first == event_errors \o data_errors
        calls == {"check_event_key", "check_data_key"}
    IN  IF event_errors # <<>> THEN Outcome(first, calls, "none")
        ELSE
        LET schema_name_errors == check_schema_key(event.s, registry)
            calls2 == calls \cup {"check_schema_key"}
        IN  IF schema_name_errors # <<>> \/ data_errors # <<>>
            THEN Outcome(first \o schema_name_errors, calls2, "none")
            ELSE IF registry[event.s].class # "Draft7Validator"
            THEN Outcome(first \o schema_name_errors,
                         calls2 \cup {"check_data"}, "AttributeError")
            ELSE Outcome(first \o schema_name_errors
                           \o check_data(data, registry[event.s]),
                         calls2 \cup {"check_data"}, "none")

\* A faulty variant of CheckDocument: the isinstance test of line 146 is
\* missing, and a value that is no dict reaches event_json.get.
CheckDocumentNoDictTest(file, registry) ==
    IF file.kind # "json" THEN Outcome(<<MSG_NOT_JSON>>, {}, "none")
    ELSE IF file.value.k # "dict"
    THEN Outcome(<<>>, {"check_event_key"}, "AttributeError")
    ELSE CheckKeys(file.value, registry)

\* One iteration of the loop of run_checker, lines 140-167: reader raises
\* on bytes that are no JSON.
CheckDocument(file, registry) ==
    IF file.kind # "json" THEN Outcome(<<MSG_NOT_JSON>>, {}, "none")
    ELSE IF file.value.k # "dict" THEN Outcome(<<MSG_NOT_DICT>>, {}, "none")
    ELSE CheckKeys(file.value, registry)

\* A faulty variant of LoadSchema: a file that fails leaves no entry.
LoadSchemaDropsFailure(registry, filename, file) ==
    IF file.kind # "json" \/ CheckSchemaRaises(file.value) THEN registry
    ELSE (filename :> Draft7Validator(file.value)) @@ registry

\* One iteration of the loop of schema_loader, lines 69-76.
LoadSchema(registry, filename, file) ==
    IF file.kind # "json"
    THEN (filename :> CorruptedSchema(JSONDecodeError)) @@ registry
    ELSE IF CheckSchemaRaises(file.value)
    THEN (filename :> CorruptedSchema(SchemaError)) @@ registry
    ELSE (filename :> Draft7Validator(file.value)) @@ registry

\* CorruptedSchema.__str__
CorruptedSchemaStr(v) == "Schema invalid: " \o v.error

\* The dict run_checker returns, lines 168-174.
Result(registry, errs) ==
    LET corrupted == {name \in DOMAIN registry :
                         registry[name].class = "CorruptedSchema"}
    IN  JDict([schema_errors |->
                   JDict([name \in corrupted |->
                             JStr(CorruptedSchemaStr(registry[name]))]),
               json_errors |->
                   JDict([name \in DOMAIN errs |->
                             JList([i \in 1..Len(errs[name]) |->
                                       JStr(errs[name][i])])])])

\* The keys of a dict in the order .items() yields them.  The model keeps
\* no insertion order: it enumerates the keys in one fixed order.
RECURSIVE Items(_)
Items(S) ==
    IF S = {} THEN <<>>
    ELSE LET key == CHOOSE key \in S : TRUE IN <<key>> \o Items(S \ {key})

RECURSIVE Flatten(_)
Flatten(seqs) ==
    IF seqs = <<>> THEN <<>> ELSE Head(seqs) \o Flatten(Tail(seqs))

\* make_report, lines 202-215.
make_report(r) ==
    LET schemaPart ==
            IF "schema_errors" \in DOMAIN r.m
            THEN LET m == r.m["schema_errors"].m
                     names == Items(DOMAIN m)
                 IN  <<SCHEMA_HEADING>> \o
                     Flatten([i \in 1..Len(names) |->
                        <<"\tErrors found in schema " \o names[i] \o ":\n",
                          "\t" \o m[names[i]].s \o "\n">>])
            ELSE <<>>
        jsonPart ==
            IF "json_errors" \in DOMAIN r.m
            THEN LET m == r.m["json_errors"].m
                     names == Items(DOMAIN m)
                 IN  <<JSON_HEADING>> \o
                     Flatten([i \in 1..Len(names) |->
                        <<"\tErrors found in file " \o names[i] \o ":\n">>
                        \o [j \in 1..Len(m[names[i]].a) |->
                               "\t" \o m[names[i]].a[j].s \o "\n"]])
            ELSE <<>>
    IN  <<HEADER, "\n">> \o schemaPart \o jsonPart

(***************************************************************************)
(* Spec: one run of main().                                                *)
(***************************************************************************)
Init ==
    /\ schema_dir \in SchemaDirs
    /\ event_dir \in EventDirs
    /\ pc = "main"
    /\ todo = {}
    /\ schemas = EmptyMap
    /\ errors = EmptyMap
    /\ idx = 1
    /\ ran = EmptyMap
    /\ result = NotYet
    /\ res = NotYet
    /\ report = <<>>
    /\ report_file = NotYet
    /\ fault = "none"
    /\ x = None
    /\ out = NotYet
    /\ out2 = NotYet
    /\ phase = "off"

\* main, lines 230-234: validate_path() is called and its value dropped;
\* schema_loader starts on the files of the schema directory.
MainStart ==
    /\ pc = "main"
    /\ pc' = "schema_loader"
    /\ todo' = DOMAIN schema_dir
    /\ schemas' = EmptyMap
    /\ UNCHANGED <<schema_dir, event_dir, errors, idx, ran, result, res,
                   report, report_file, fault>>
    /\ UNCHANGED pruneVars

\* schema_loader: the next file iterdir() yields, in any order.
SchemaLoaderStep ==
    /\ pc = "schema_loader"
    /\ \E filename \in todo :
           /\ schemas' = LoadSchema(schemas, filename, schema_dir[filename])
           /\ todo' = todo \ {filename}
    /\ UNCHANGED <<schema_dir, event_dir, pc, errors, idx, ran, result, res,
                   report, report_file, fault>>
    /\ UNCHANGED pruneVars

\* schema_loader returns; run_checker lists the event directory and gives
\* every file an empty list (lines 137-138).
RunCheckerStart ==
    /\ pc = "schema_loader"
    /\ todo = {}
    /\ pc' = "run_checker"
    /\ errors' = [name \in {DocStem(i) : i \in 1..Len(event_dir)} |-> <<>>]
    /\ ran' = [name \in {DocStem(i) : i \in 1..Len(event_dir)} |-> {}]
    /\ idx' = 1
    /\ UNCHANGED <<schema_dir, event_dir, todo, schemas, result, res, report,
                   report_file, fault>>
    /\ UNCHANGED pruneVars

\* run_checker: one document.  An exception that leaves the loop ends main.
RunCheckerStep ==
    /\ pc = "run_checker"
    /\ idx <= Len(event_dir)
    /\ LET r == CheckDocument(event_dir[idx], schemas)
           name == DocStem(idx)
       IN  /\ errors' = [errors EXCEPT ![name] = errors[name] \o r.errors]
           /\ ran' = [ran EXCEPT ![name] = r.ran]
           /\ fault' = r.raised
           /\ IF r.raised = "none"
              THEN idx' = idx + 1 /\ pc' = pc
              ELSE idx' = idx /\ pc' = "crashed"
    /\ UNCHANGED <<schema_dir, event_dir, todo, schemas, result, res, report,
                   report_file>>
    /\ UNCHANGED pruneVars

\* run_checker returns its result (lines 168-177).
RunCheckerReturn ==
    /\ pc = "run_checker"
    /\ idx > Len(event_dir)
    /\ result' = Result(schemas, errors)
    /\ pc' = "remove_empty_from_dict"
    /\ UNCHANGED <<schema_dir, event_dir, todo, schemas, errors, idx, ran,
                   res, report, report_file, fault>>
    /\ UNCHANGED pruneVars

\* main, line 238.
PruneResult ==
    /\ pc = "remove_empty_from_dict"
    /\ res' = remove_empty_from_dict(result)
    /\ pc' = "make_report"
    /\ UNCHANGED <<schema_dir, event_dir, todo, schemas, errors, idx, ran,
                   result, report, report_file, fault>>
    /\ UNCHANGED pruneVars

\* main, line 240.
MakeReport ==
    /\ pc = "make_report"
    /\ report' = make_report(res)
    /\ pc' = "write_report"
    /\ UNCHANGED <<schema_dir, event_dir, todo, schemas, errors, idx, ran,
                   result, res, report_file, fault>>
    /\ UNCHANGED pruneVars

\* main, line 242.
WriteReport ==
    /\ pc = "write_report"
    /\ report_file' = report
    /\ pc' = "done"
    /\ UNCHANGED <<schema_dir, event_dir, todo, schemas, errors, idx, ran,
                   result, res, report, fault>>
    /\ UNCHANGED pruneVars

Next ==
    \/ MainStart
    \/ SchemaLoaderStep
    \/ RunCheckerStart
    \/ RunCheckerStep
    \/ RunCheckerReturn
    \/ PruneResult
    \/ MakeReport
    \/ WriteReport

Spec == Init /\ [][Next]_vars

(***************************************************************************)
(* Claims about the run of main(), checked under Spec.                     *)
(***************************************************************************)
AfterRunChecker == {"remove_empty_from_dict", "make_report", "write_report",
                    "done"}
Docs == 1..Len(event_dir)
\* The loop of run_checker has finished the i-th document.
Finished(i) ==
    \/ pc \in {"run_checker", "crashed"} /\ i < idx
    \/ pc \in AfterRunChecker
\* The loop has finished the i-th document or was ended by it.
Visited(i) == Finished(i) \/ (pc = "crashed" /\ i = idx)

IsObject(file) == file.kind = "json" /\ file.value.k = "dict"
EventOf(file) == Get(file.value, "event")
DataOf(file) == Get(file.value, "data")
\* The document is an object whose event is a string naming an entry of
\* the registry.
NamesEntry(file) ==
    /\ IsObject(file)
    /\ EventOf(file).k = "str"
    /\ EventOf(file).s \in DOMAIN schemas
NamesCorrupted(file) ==
    NamesEntry(file) /\ schemas[EventOf(file).s].class = "CorruptedSchema"
NamesValid(file) ==
    NamesEntry(file) /\ schemas[EventOf(file).s].class = "Draft7Validator"
Range(seq) == {seq[i] : i \in 1..Len(seq)}

\* C1: a document whose event names a CorruptedSchema gets the message
\* 'errors were found in the given schema', and check_data is not run for it.
C1_CorruptedSchemaReported ==
    \A i \in Docs :
        Visited(i) /\ NamesCorrupted(event_dir[i]) =>
            /\ MSG_SCHEMA_ERRORS \in Range(errors[DocStem(i)])
            /\ "check_data" \notin ran[DocStem(i)]

\* C2: no step of main() ends in an uncaught exception, whatever the two
\* directories hold.
C2_NoUncaughtFault == fault = "none" /\ pc # "crashed"

\* e lists the messages of the violations V, each once, in ascending order
\* of the violations' str.
IsSortedArrangement(e, V) ==
    /\ Len(e) = Len(V)
    /\ \E f \in [1..Len(V) -> 1..Len(V)] :
           /\ \A j, k \in 1..Len(V) : j # k => f[j] # f[k]
           /\ \A j \in 1..Len(V) : e[j] = V[f[j]].message
           /\ \A j, k \in 1..Len(V) :
                  j < k => StrLeq(ErrorStr(V[f[j]]), ErrorStr(V[f[k]]))

\* C3: for a document with event and data both present whose event names a
\* valid schema, the error list is exactly the violations of that schema
\* against data, in ascending order of their str, and nothing else.
C3_SortedViolations ==
    \A i \in Docs :
        Finished(i) /\ NamesValid(event_dir[i])
                    /\ DataOf(event_dir[i]) # None =>
            IsSortedArrangement(
                errors[DocStem(i)],
                iter_errors(schemas[EventOf(event_dir[i]).s].schema,
                            DataOf(event_dir[i])))

\* C3's case: two violations that the engine yields in the other order.
C3_Witness ==
    \E i \in Docs :
        /\ Finished(i) /\ NamesValid(event_dir[i])
        /\ DataOf(event_dir[i]) # None
        /\ Len(errors[DocStem(i)]) = 2
        /\ errors[DocStem(i)] #
               Messages(iter_errors(schemas[EventOf(event_dir[i]).s].schema,
                                    DataOf(event_dir[i])))

\* C8: with no corrupted schema and no error in any document (one document
\* at least), the report written holds the header and nothing else.
C8_HeaderOnly ==
    (/\ pc = "done"
     /\ Len(event_dir) >= 1
     /\ \A name \in DOMAIN schemas : schemas[name].class # "CorruptedSchema"
     /\ \A i \in Docs : errors[DocStem(i)] = <<>>)
    => report_file = <<HEADER, "\n">>

\* What schema_loader's try block does with a file: it raises.
FileFails(file) == file.kind # "json" \/ CheckSchemaRaises(file.value)

\* C9: the registry has one entry per schema file, keyed by stem; a file
\* that fails gives a CorruptedSchema and the others are loaded all the
\* same; schema_errors names exactly the corrupted entries, each with a
\* message that is not empty.
C9_LoadIsolated ==
    /\ pc = "schema_loader" => DOMAIN schemas = DOMAIN schema_dir \ todo
    /\ pc \notin {"main", "schema_loader"} =>
           DOMAIN schemas = DOMAIN schema_dir
    /\ \A name \in DOMAIN schemas :
           IF FileFails(schema_dir[name])
           THEN schemas[name].class = "CorruptedSchema"
           ELSE schemas[name] = Draft7Validator(schema_dir[name].value)
    /\ result # NotYet =>
           /\ DOMAIN result.m["schema_errors"].m =
                  {name \in DOMAIN schema_dir : FileFails(schema_dir[name])}
           /\ \A name \in DOMAIN result.m["schema_errors"].m :
                  /\ result.m["schema_errors"].m[name].k = "str"
                  /\ result.m["schema_errors"].m[name].s # ""

\* C9's case: a run with a corrupted and a valid schema file has returned
\* its result.
C9_Witness ==
    /\ result # NotYet
    /\ \E name \in DOMAIN schemas : schemas[name].class = "CorruptedSchema"
    /\ \E name \in DOMAIN schemas : schemas[name].class = "Draft7Validator"

\* C10: a document that is no JSON, or no JSON object, ends with exactly its
\* one message and none of the key, schema or conformance checks run for
\* it; it never ends the batch, and every document has its entry.
C10_FormatErrorsShortCircuit ==
    /\ pc \notin {"main", "schema_loader"} =>
           DOMAIN errors = {DocStem(i) : i \in Docs}
    /\ \A i \in Docs :
           Visited(i) /\ ~IsObject(event_dir[i]) =>
               /\ errors[DocStem(i)] =
                      IF event_dir[i].kind # "json" THEN <<MSG_NOT_JSON>>
                      ELSE <<MSG_NOT_DICT>>
               /\ ran[DocStem(i)] = {}
               /\ Finished(i)
    /\ result # NotYet =>
           DOMAIN result.m["json_errors"].m = {DocStem(i) : i \in Docs}

\* C10's case: a file that is no JSON object came first, and the document
\* after it was validated against its schema.
C10_Witness ==
    /\ pc = "done"
    /\ Len(event_dir) = 2
    /\ event_dir[1] = JsonFile(EmptyList)
    /\ errors[DocStem(1)] = <<MSG_NOT_DICT>>
    /\ "check_data" \in ran[DocStem(2)]
    /\ Len(errors[DocStem(2)]) = 2

(***************************************************************************)
(* Claims about remove_empty_from_dict, checked under SpecPrune.           *)
(***************************************************************************)
\* An "empty" value: null, the empty string, the empty dict, the empty list.
IsEmptyValue(v) == v = None \/ v = JStr("") \/ v = EmptyDict \/ v = EmptyList

\* No dict value and no list element of v, at any depth, is an empty value.
RECURSIVE NoEmptyInside(_)
NoEmptyInside(v) ==
    IF v.k = "dict"
    THEN \A key \in DOMAIN v.m :
             ~IsEmptyValue(v.m[key]) /\ NoEmptyInside(v.m[key])
    ELSE IF v.k = "list"
    THEN \A i \in 1..Len(v.a) : ~IsEmptyValue(v.a[i]) /\ NoEmptyInside(v.a[i])
    ELSE TRUE

\* The number of `false` leaves held by v as a dict value or a list element.
RECURSIVE FalseLeaves(_)
FalseLeaves(v) ==
    LET count(c) == (IF c = JBool(FALSE) THEN 1 ELSE 0) + FalseLeaves(c)
        RECURSIVE ofKeys(_)
        ofKeys(S) ==
            IF S = {} THEN 0
            ELSE LET key == CHOOSE key \in S : TRUE
                 IN  count(v.m[key]) + ofKeys(S \ {key})
        RECURSIVE ofElems(_)
        ofElems(i) ==
            IF i > Len(v.a) THEN 0 ELSE count(v.a[i]) + ofElems(i + 1)
    IN  IF v.k = "dict" THEN ofKeys(DOMAIN v.m)
        ELSE IF v.k = "list" THEN ofElems(1)
        ELSE 0

IsNumber(v) == v.k = "int" \/ v.k = "float"

\* v is, or holds at some depth, a number.
RECURSIVE HasNumber(_)
HasNumber(v) ==
    IF v.k = "dict" THEN \E key \in DOMAIN v.m : HasNumber(v.m[key])
    ELSE IF v.k = "list" THEN \E i \in 1..Len(v.a) : HasNumber(v.a[i])
    ELSE IsNumber(v)

\* The numeric leaves of v, each with the containers that hold it: the path
\* of a leaf names the key of each dict and, for each list, the rank of the
\* element among the elements of that list that hold a number.
RECURSIVE NumberPaths(_)
NumberPaths(v) ==
    IF IsNumber(v) THEN {<<<<>>, v>>}
    ELSE IF v.k = "dict"
    THEN UNION {{<<<<key>> \o p[1], p[2]>> : p \in NumberPaths(v.m[key])} :
                  key \in DOMAIN v.m}
    ELSE IF v.k = "list"
    THEN UNION {LET rank == Cardinality({j \in 1..i : HasNumber(v.a[j])})
                IN  {<<<<"#" \o ToString(rank)>> \o p[1], p[2]>> :
                        p \in NumberPaths(v.a[i])} :
                  i \in {j \in 1..Len(v.a) : HasNumber(v.a[j])}}
    ELSE {}

\* C4: remove_empty_from_dict is idempotent: pruning the pruned value
\* returns an equal value.
C4_Idempotent == phase = "twice" => out2 = out

\* C5: the pruned value holds, at no depth, a dict value or a list element
\* that is null, an empty string, an empty dict or an empty list.
C5_NoEmptyValueLeft == phase # "build" => NoEmptyInside(out)

\* C6: every `false` leaf of x (a dict value or a list element) is still in
\* the pruned value.
C6_FalsePreserved == phase # "build" => FalseLeaves(out) = FalseLeaves(x)

\* C7: every numeric leaf of x (int or float, 0 and 0.0 included) is in the
\* pruned value with the same type and value, inside the same containers:
\* no number and no container holding one is removed.
C7_NumbersPreserved == phase # "build" => NumberPaths(out) = NumberPaths(x)

\* C7's case: a zero two containers deep survives a pruning that removed
\* something else.
C7_Witness ==
    /\ phase = "pruned"
    /\ out # x
    /\ \E p \in NumberPaths(x) : Len(p[1]) = 2 /\ p[2].n = 0
    /\ NumberPaths(out) # {}

====
